---------------------------- MODULE Spec2Model ----------------------------
(***************************************************************************)
(* Model of the multi-ratio crop/export editor                             *)
(* (src/components/ImageEditor.tsx).                                       *)
(*                                                                         *)
(* Four specifications over one set of variables:                          *)
(*   SpecCrop    the per-ratio crop state manager: every mutator of a      *)
(*               ratio's CropState, the image change and the reset effect. *)
(*   Spec        the export orchestrator on one source image:              *)
(*               handleDownload, handleDownloadAll and their asynchronous  *)
(*               continuations, interleaved with crop-complete callbacks   *)
(*               and the reset effect of the mount.  The export code reads *)
(*               croppedAreaPixels only (lines 100-106), so pan and zoom   *)
(*               stay at their defaults here.                              *)
(*   SpecImage   the exports with the source image changing under them.    *)
(*   SpecRaster  generateBlob applied to bounded inputs.                   *)
(*                                                                         *)
(* Numbers: zoom is kept in tenths (zoom 1 is 10, zoom 3 is 30), the       *)
(* slider's step (line 199).  Timestamps in file names are left out.       *)
(***************************************************************************)
EXTENDS Integers, Sequences, FiniteSets

VARIABLES
    imageUrl,      \* the imageUrl prop of the committed render
    changes,       \* how often imageUrl has changed, counted up to MaxImageChanges
    effectDeps,    \* the imageUrl the reset effect last ran for (its dependency)
    cropStates,    \* useState: ratio -> CropState
    isProcessing,  \* useState: the processing flag
    single,        \* tracked invocations handleDownload(ratio, true)
    batch,         \* tracked invocations handleDownloadAll()
    rasterIn,      \* SpecRaster: the input generateBlob is applied to
    rasterOut,     \* SpecRaster: what generateBlob gave for rasterIn
    svcIn,         \* SpecService: the call made to an image service
    svcOut,        \* SpecService: how that call settled
    app            \* SpecApp: the state of App and its two handlers' invocations

vars == <<imageUrl, changes, effectDeps, cropStates, isProcessing, single, batch,
          rasterIn, rasterOut, svcIn, svcOut, app>>

editorVars == <<imageUrl, changes, effectDeps, cropStates, isProcessing, single, batch>>
rasterVars == <<rasterIn, rasterOut>>
appVars == <<svcIn, svcOut, app>>

----------------------------------------------------------------------------
(* Bounds *)

\* concurrently tracked single exports
MaxSingles == 1
\* concurrently tracked batch exports
MaxBatches == 1
\* largest coordinate and side of a rectangle handed to generateBlob in SpecRaster
MaxSide == 3
\* image changes SpecImage follows
MaxImageChanges == 1

----------------------------------------------------------------------------
(* Data *)

\* enum AspectRatio
Ratios == {"LANDSCAPE", "CINEMATIC", "SQUARE"}

\* RATIO_CONFIG: the three croppers, in render order
RATIO_CONFIG ==
    << [id |-> "LANDSCAPE", label |-> "16:9"],
       [id |-> "CINEMATIC", label |-> "2.35:1"],
       [id |-> "SQUARE", label |-> "1:1"] >>

\* the null of croppedAreaPixels / of a blob
NULL == [null |-> TRUE]

\* INITIAL_STATE
INITIAL_STATE == [crop |-> [x |-> 0, y |-> 0], zoom |-> 10, croppedAreaPixels |-> NULL]

\* image references the surrounding application may hand over
Images == {"A", "B"}

\* natural size of each image once decoded
NaturalSize(url) ==
    IF url = "A" THEN [width |-> 3, height |-> 2] ELSE [width |-> 2, height |-> 3]

\* pan offsets the crop view reports through onCropChange
Points == {[x |-> 0, y |-> 0], [x |-> 1, y |-> -1]}

\* the range input's min and max, in tenths
SliderMin == 10
SliderMax == 30

\* values the range input can deliver: within [min, max]
SliderValues == {SliderMin, 20, SliderMax}

\* zoom values the crop view reports through onZoomChange
CropperZooms == {10, 30}

\* rectangles the crop view reports through onCropComplete
Areas ==
    { [x |-> 1, y |-> 0, width |-> 1, height |-> 2] }

\* A recorded rectangle carries, beside the Area's four numbers, the image
\* reference that was the source when it was recorded ("of": history only,
\* never read by an operation).
Recorded(area, url) ==
    [x |-> area.x, y |-> area.y, width |-> area.width, height |-> area.height, of |-> url]

----------------------------------------------------------------------------
(* Per-ratio crop state *)

\* { ...prev[ratio], ...updates }
Merge(state, updates) ==
    [k \in DOMAIN state |-> IF k \in DOMAIN updates THEN updates[k] ELSE state[k]]

\* a shared-state slip: the updates land on every ratio
UpdateAllRatios(prev, ratio, updates) ==
    [q \in Ratios |-> Merge(prev[q], updates)]

\* the updater of updateCropState: prev => ({ ...prev, [ratio]: {...prev[ratio], ...updates} })
updateCropState(prev, ratio, updates) ==
    [prev EXCEPT ![ratio] = Merge(prev[ratio], updates)]

\* a reset that forgets the recorded rectangles
ResetKeepsAreas ==
    [r \in Ratios |-> [INITIAL_STATE EXCEPT !.croppedAreaPixels = cropStates[r].croppedAreaPixels]]

\* the state the reset effect sets
ResetState ==
    [r \in Ratios |-> INITIAL_STATE]

\* Cropper onCropChange
OnCropChange(ratio, c) ==
    /\ cropStates' = updateCropState(cropStates, ratio, [crop |-> c])
    /\ UNCHANGED <<imageUrl, changes, effectDeps, isProcessing, single, batch, rasterVars, appVars>>

\* Cropper onZoomChange
OnZoomChange(ratio, z) ==
    /\ cropStates' = updateCropState(cropStates, ratio, [zoom |-> z])
    /\ UNCHANGED <<imageUrl, changes, effectDeps, isProcessing, single, batch, rasterVars, appVars>>

\* the zoom slider's onChange
OnSliderChange(ratio, z) ==
    /\ z # cropStates[ratio].zoom
    /\ cropStates' = updateCropState(cropStates, ratio, [zoom |-> z])
    /\ UNCHANGED <<imageUrl, changes, effectDeps, isProcessing, single, batch, rasterVars, appVars>>

\* Cropper onCropComplete
OnCropComplete(ratio, area) ==
    /\ cropStates' = updateCropState(cropStates, ratio,
                                     [croppedAreaPixels |-> Recorded(area, imageUrl)])
    /\ UNCHANGED <<imageUrl, changes, effectDeps, isProcessing, single, batch, rasterVars, appVars>>

\* The parent renders the editor with another imageUrl.  The render commits
\* with the state as it is; the reset effect of this render is then pending.
\* Effects of the previous render are flushed before a new render starts.
ImageChange(url) ==
    /\ url # imageUrl
    /\ effectDeps = imageUrl
    /\ imageUrl' = url
    /\ changes' = IF changes < MaxImageChanges THEN changes + 1 ELSE changes
    /\ UNCHANGED <<effectDeps, cropStates, isProcessing, single, batch, rasterVars, appVars>>

\* useEffect(() => setCropStates({...}), [imageUrl]): runs after the commit of
\* a render whose imageUrl differs from the one it last ran for
ResetEffect ==
    /\ effectDeps # imageUrl
    /\ cropStates' = ResetState
    /\ effectDeps' = imageUrl
    /\ UNCHANGED <<imageUrl, changes, isProcessing, single, batch, rasterVars, appVars>>

----------------------------------------------------------------------------
(* Rasterizer: generateBlob *)

\* a pixel of a decoded image
Pixel(url, x, y) == [of |-> url, x |-> x, y |-> y]

\* a pixel nothing was drawn on (or drawn from outside the image)
Transparent == [of |-> "none", x |-> -1, y |-> -1]

\* the cells of a surface of the given size
Cells(width, height) == (0 .. width - 1) \X (0 .. height - 1)

\* document.createElement('canvas') with width and height then set
NewCanvas(width, height) ==
    [width |-> width, height |-> height,
     data |-> [c \in Cells(width, height) |-> Transparent]]

\* ctx.drawImage(image, sx, sy, sw, sh, dx, dy, dw, dh): each destination cell
\* of the canvas inside [dx, dy, dw, dh] takes the source pixel the scaling
\* maps it to; source positions outside the image draw nothing
drawImage(canvas, url, sx, sy, sw, sh, dx, dy, dw, dh) ==
    LET size == NaturalSize(url)
        src(c) == [x |-> sx + (((c[1] - dx) * sw) \div dw),
                   y |-> sy + (((c[2] - dy) * sh) \div dh)]
        inDest(c) == c[1] >= dx /\ c[1] < dx + dw /\ c[2] >= dy /\ c[2] < dy + dh
        inImage(p) == p.x >= 0 /\ p.x < size.width /\ p.y >= 0 /\ p.y < size.height
    IN  [canvas EXCEPT !.data =
            [c \in DOMAIN canvas.data |->
                IF inDest(c) /\ inImage(src(c))
                THEN Pixel(url, src(c).x, src(c).y)
                ELSE canvas.data[c]]]

\* a slip: the output surface gets the image's natural size, not the rectangle's
CanvasOfNaturalSize(url, pixels) ==
    drawImage(NewCanvas(NaturalSize(url).width, NaturalSize(url).height),
              url, pixels.x, pixels.y, pixels.width, pixels.height,
              0, 0, NaturalSize(url).width, NaturalSize(url).height)

\* lines 75-88: size the canvas to the rectangle and copy the region to (0,0)
CropToCanvas(url, pixels) ==
    drawImage(NewCanvas(pixels.width, pixels.height),
              url, pixels.x, pixels.y, pixels.width, pixels.height,
              0, 0, pixels.width, pixels.height)

\* canvas.toBlob(..., 'image/png') delivering a blob: PNG keeps the surface as it is
PngBlob(canvas) ==
    [type |-> "image/png", width |-> canvas.width, height |-> canvas.height,
     data |-> canvas.data]

\* What the browser does during one generateBlob up to toBlob: the image loads
\* or errors, getContext gives a context or null, drawImage returns or throws,
\* toBlob queues its callback or throws.  One record per first thing that goes
\* wrong (what would follow it is never reached), and one for nothing.
EnvOk == [image |-> "load", ctx |-> "2d", draw |-> "ok", toBlob |-> "queued"]

Envs ==
    { EnvOk,
      [EnvOk EXCEPT !.image = "error"],
      [EnvOk EXCEPT !.ctx = "null"],
      [EnvOk EXCEPT !.draw = "throws"],
      [EnvOk EXCEPT !.toBlob = "throws"] }

\* generateBlob from the settling of createImage up to its next suspension:
\*   kind "await":  toBlob is queued, the promise of line 90 is pending
\*   kind "return": the async function returned value (null), after logs
\*                  calls of console.error
\*   kind "reject": the returned promise rejects
\* createImage rejecting and drawImage throwing are caught at line 93; a throw
\* of toBlob happens in the executor of the promise that line 90 returns
\* without awaiting it, so the catch of line 93 does not see it.
generateBlobFromImage(url, pixels, env) ==
    IF env.image = "error" THEN [kind |-> "return", value |-> NULL, logs |-> 1]
    ELSE IF env.ctx = "null" THEN [kind |-> "return", value |-> NULL, logs |-> 0]
    ELSE IF env.draw = "throws" THEN [kind |-> "return", value |-> NULL, logs |-> 1]
    ELSE IF env.toBlob = "throws" THEN [kind |-> "reject", value |-> NULL, logs |-> 0]
    ELSE [kind |-> "await", value |-> CropToCanvas(url, pixels), logs |-> 0]

\* the toBlob callback of line 91 resolving the promise with its argument
generateBlobFromCallback(canvas, encoded) ==
    [kind |-> "return", value |-> IF encoded THEN PngBlob(canvas) ELSE NULL, logs |-> 0]

\* generateBlob from call to settlement
generateBlob(url, pixels, env, encoded) ==
    LET first == generateBlobFromImage(url, pixels, env)
    IN  IF first.kind = "await" THEN generateBlobFromCallback(first.value, encoded)
        ELSE first

----------------------------------------------------------------------------
(* Export orchestrator: handleDownload *)

\* the ratios array of handleDownloadAll (line 127)
ratios == <<"LANDSCAPE", "CINEMATIC", "SQUARE">>

\* line 110
ratioName(ratio) ==
    IF ratio = "LANDSCAPE" THEN "16-9"
    ELSE IF ratio = "CINEMATIC" THEN "2.35-1" ELSE "1-1"

\* the file link.click() downloads: cover-<ratioName>-<timestamp>.png
DownloadedFile(ratio, blob) ==
    [prefix |-> "cover", ratioName |-> ratioName(ratio), ext |-> "png", blob |-> blob]

\* One invocation of handleDownload(ratio, single) made from a render whose
\* closure holds url and cs.
\*   pc       "idle": no invocation; "createImage", "toBlob": suspended in
\*            generateBlob at line 70, at line 90; "returned": settled
\*   pixels   state.croppedAreaPixels (line 100)
\*   canvas   the canvas of generateBlob while toBlob is pending
\*   result   "skipped": returned at line 101; "file": a file was downloaded;
\*            "null": generateBlob gave null; "caught": the catch of line 116 ran
\*   alerts   calls of alert
\*   raised   the promise handleDownload returned was rejected
NoFrame ==
    [pc |-> "idle", ratio |-> "LANDSCAPE", single |-> TRUE, imageUrl |-> "A",
     pixels |-> NULL, canvas |-> NULL, result |-> "none", file |-> NULL,
     alerts |-> 0, raised |-> FALSE]

\* a slip: the flag is set before the rectangle is looked at
handleDownloadFlagFirst(cs, url, ratio, isSingle, flag) ==
    LET state == cs[ratio]
        frame == [NoFrame EXCEPT !.ratio = ratio, !.single = isSingle, !.imageUrl = url]
        set == IF isSingle THEN TRUE ELSE flag
    IN  IF state.croppedAreaPixels = NULL
        THEN [frame |-> [frame EXCEPT !.pc = "returned", !.result = "skipped"],
              isProcessing |-> set]
        ELSE [frame |-> [frame EXCEPT !.pc = "createImage",
                                      !.pixels = state.croppedAreaPixels],
              isProcessing |-> set]

\* handleDownload from its call to its first suspension (lines 99-106, 68-70):
\* the frame and the flag it leaves
handleDownloadCall(cs, url, ratio, isSingle, flag) ==
    LET state == cs[ratio]
        frame == [NoFrame EXCEPT !.ratio = ratio, !.single = isSingle, !.imageUrl = url]
    IN  IF state.croppedAreaPixels = NULL
        THEN [frame |-> [frame EXCEPT !.pc = "returned", !.result = "skipped"],
              isProcessing |-> flag]
        ELSE [frame |-> [frame EXCEPT !.pc = "createImage",
                                      !.pixels = state.croppedAreaPixels],
              isProcessing |-> IF isSingle THEN TRUE ELSE flag]

\* a slip: the alert of line 118 without its guard
handleDownloadAlertsAlways(frame, blobResult, flag) ==
    LET logged == [frame EXCEPT !.pc = "returned", !.pixels = NULL, !.canvas = NULL]
        after ==
            IF blobResult.kind = "reject"
            THEN [logged EXCEPT !.result = "caught", !.alerts = @ + 1]
            ELSE IF blobResult.value # NULL
            THEN [logged EXCEPT !.result = "file",
                                !.file = DownloadedFile(frame.ratio, blobResult.value)]
            ELSE [logged EXCEPT !.result = "null"]
    IN  [frame |-> after, isProcessing |-> IF frame.single THEN FALSE ELSE flag]

\* a slip: no catch around the await of line 106 (finally still runs)
handleDownloadNoCatch(frame, blobResult, flag) ==
    LET logged == [frame EXCEPT !.pc = "returned", !.pixels = NULL, !.canvas = NULL]
        after ==
            IF blobResult.kind = "reject"
            THEN [logged EXCEPT !.result = "caught", !.raised = TRUE]
            ELSE IF blobResult.value # NULL
            THEN [logged EXCEPT !.result = "file",
                                !.file = DownloadedFile(frame.ratio, blobResult.value)]
            ELSE [logged EXCEPT !.result = "null"]
    IN  [frame |-> after, isProcessing |-> IF frame.single THEN FALSE ELSE flag]

\* a slip: the flag is lowered after the try instead of in a finally, so the
\* path through the catch leaves it up
handleDownloadKeepsFlag(frame, blobResult, flag) ==
    LET logged == [frame EXCEPT !.pc = "returned", !.pixels = NULL, !.canvas = NULL]
    IN  IF blobResult.kind = "reject"
        THEN [frame |-> [logged EXCEPT !.result = "caught",
                                       !.alerts = IF frame.single THEN @ + 1 ELSE @],
              isProcessing |-> flag]
        ELSE IF blobResult.value # NULL
        THEN [frame |-> [logged EXCEPT !.result = "file",
                                       !.file = DownloadedFile(frame.ratio, blobResult.value)],
              isProcessing |-> IF frame.single THEN FALSE ELSE flag]
        ELSE [frame |-> [logged EXCEPT !.result = "null"],
              isProcessing |-> IF frame.single THEN FALSE ELSE flag]

\* handleDownload once generateBlob has settled with blobResult (lines 106-121):
\* the file download, the catch, the finally; the locals are gone on return.
\* What console.error printed is not kept.
handleDownloadSettled(frame, blobResult, flag) ==
    LET logged == [frame EXCEPT !.pc = "returned", !.pixels = NULL, !.canvas = NULL]
        after ==
            IF blobResult.kind = "reject"
            THEN [logged EXCEPT !.result = "caught",
                                !.alerts = IF frame.single THEN @ + 1 ELSE @]
            ELSE IF blobResult.value # NULL
            THEN [logged EXCEPT !.result = "file",
                                !.file = DownloadedFile(frame.ratio, blobResult.value)]
            ELSE [logged EXCEPT !.result = "null"]
    IN  [frame |-> after, isProcessing |-> IF frame.single THEN FALSE ELSE flag]

\* handleDownload resumed by the settling of createImage: generateBlob runs on
\* to toBlob, or settles and handleDownload finishes
handleDownloadImage(frame, env, flag) ==
    LET g == generateBlobFromImage(frame.imageUrl, frame.pixels, env)
    IN  IF g.kind = "await"
        THEN [frame |-> [frame EXCEPT !.pc = "toBlob", !.canvas = g.value],
              isProcessing |-> flag]
        ELSE handleDownloadSettled(frame, g, flag)

\* handleDownload resumed by the toBlob callback
handleDownloadBlob(frame, encoded, flag) ==
    handleDownloadSettled(frame, generateBlobFromCallback(frame.canvas, encoded), flag)

----------------------------------------------------------------------------
(* Export orchestrator: the single-export buttons *)

\* slots whose invocation has settled, or that hold none
FreeSingles == {i \in 1 .. MaxSingles : single[i].pc \in {"idle", "returned"}}

\* onClick={() => handleDownload(config.id)} (line 165): the handler of the
\* committed render, with that render's imageUrl and cropStates
SingleClick(ratio) ==
    /\ FreeSingles # {}
    /\ LET i == CHOOSE k \in FreeSingles : \A j \in FreeSingles : k <= j
           call == handleDownloadCall(cropStates, imageUrl, ratio, TRUE, isProcessing)
       IN  /\ single' = [single EXCEPT ![i] = call.frame]
           /\ isProcessing' = call.isProcessing
    /\ UNCHANGED <<imageUrl, changes, effectDeps, cropStates, batch, rasterVars, appVars>>

\* createImage settles for a single export
SingleImageSettles(i, env) ==
    /\ single[i].pc = "createImage"
    /\ LET r == handleDownloadImage(single[i], env, isProcessing)
       IN  /\ single' = [single EXCEPT ![i] = r.frame]
           /\ isProcessing' = r.isProcessing
    /\ UNCHANGED <<imageUrl, changes, effectDeps, cropStates, batch, rasterVars, appVars>>

\* the toBlob callback runs for a single export
SingleBlobCallback(i, encoded) ==
    /\ single[i].pc = "toBlob"
    /\ LET r == handleDownloadBlob(single[i], encoded, isProcessing)
       IN  /\ single' = [single EXCEPT ![i] = r.frame]
           /\ isProcessing' = r.isProcessing
    /\ UNCHANGED <<imageUrl, changes, effectDeps, cropStates, batch, rasterVars, appVars>>

----------------------------------------------------------------------------
(* Export orchestrator: handleDownloadAll *)

\* One invocation of handleDownloadAll from a render whose closure holds
\* imageUrl and cropStates.
\*   pc        "idle"; "handleDownload": awaiting line 129; "setTimeout":
\*             awaiting line 130; "done": settled
\*   idx       position in ratios of the current iteration
\*   frame     the handleDownload invocation being awaited
\*   calls     the ratios handleDownload was called with, in order
\*   returned  the settled invocations, in order
\*   raised    the promise handleDownloadAll returned was rejected
NoBatch ==
    [pc |-> "idle", idx |-> 1, imageUrl |-> "A", cropStates |-> ResetState,
     frame |-> NoFrame, calls |-> <<>>, returned |-> <<>>, raised |-> FALSE]

\* the loop after handleDownload was called or resumed: still suspended, or
\* settled and line 130 reached, or rejected and the finally of line 132 run
handleDownloadAllAwait(b, flag) ==
    IF b.frame.pc # "returned"
    THEN [batch |-> [b EXCEPT !.pc = "handleDownload"], isProcessing |-> flag]
    ELSE IF b.frame.raised
    THEN [batch |-> [b EXCEPT !.pc = "done", !.raised = TRUE,
                              !.returned = Append(@, b.frame), !.frame = NoFrame],
          isProcessing |-> FALSE]
    ELSE [batch |-> [b EXCEPT !.pc = "setTimeout",
                              !.returned = Append(@, b.frame), !.frame = NoFrame],
          isProcessing |-> flag]

\* a slip: each iteration calls the handleDownload of the latest render, with
\* the image and the crop states of that moment
handleDownloadAllIterateLive(b, flag) ==
    LET ratio == ratios[b.idx]
        call == handleDownloadCall(cropStates, imageUrl, ratio, FALSE, flag)
    IN  handleDownloadAllAwait([b EXCEPT !.calls = Append(@, ratio), !.frame = call.frame],
                               call.isProcessing)

\* one iteration of the loop begins: line 129 calls handleDownload(ratio, false)
handleDownloadAllIterate(b, flag) ==
    LET ratio == ratios[b.idx]
        call == handleDownloadCall(b.cropStates, b.imageUrl, ratio, FALSE, flag)
    IN  handleDownloadAllAwait([b EXCEPT !.calls = Append(@, ratio), !.frame = call.frame],
                               call.isProcessing)

\* the timer of line 130 fired: the next iteration, or the end of the loop and
\* the finally of line 132
handleDownloadAllTimer(b, flag) ==
    IF b.idx < Len(ratios)
    THEN handleDownloadAllIterate([b EXCEPT !.idx = @ + 1], flag)
    ELSE [batch |-> [b EXCEPT !.pc = "done"], isProcessing |-> FALSE]

FreeBatches == {i \in 1 .. MaxBatches : batch[i].pc \in {"idle", "done"}}

\* onClick={() => handleDownloadAll()} on the button that is disabled while
\* isProcessing (lines 144-146)
BatchClick ==
    /\ ~isProcessing
    /\ FreeBatches # {}
    /\ LET i == CHOOSE k \in FreeBatches : \A j \in FreeBatches : k <= j
           r == handleDownloadAllIterate(
                    [NoBatch EXCEPT !.imageUrl = imageUrl, !.cropStates = cropStates],
                    TRUE)
       IN  /\ batch' = [batch EXCEPT ![i] = r.batch]
           /\ isProcessing' = r.isProcessing
    /\ UNCHANGED <<imageUrl, changes, effectDeps, cropStates, single, rasterVars, appVars>>

\* createImage settles for the export a batch is awaiting
BatchImageSettles(i, env) ==
    /\ batch[i].pc = "handleDownload"
    /\ batch[i].frame.pc = "createImage"
    /\ LET h == handleDownloadImage(batch[i].frame, env, isProcessing)
           r == handleDownloadAllAwait([batch[i] EXCEPT !.frame = h.frame], h.isProcessing)
       IN  /\ batch' = [batch EXCEPT ![i] = r.batch]
           /\ isProcessing' = r.isProcessing
    /\ UNCHANGED <<imageUrl, changes, effectDeps, cropStates, single, rasterVars, appVars>>

\* the toBlob callback runs for the export a batch is awaiting
BatchBlobCallback(i, encoded) ==
    /\ batch[i].pc = "handleDownload"
    /\ batch[i].frame.pc = "toBlob"
    /\ LET h == handleDownloadBlob(batch[i].frame, encoded, isProcessing)
           r == handleDownloadAllAwait([batch[i] EXCEPT !.frame = h.frame], h.isProcessing)
       IN  /\ batch' = [batch EXCEPT ![i] = r.batch]
           /\ isProcessing' = r.isProcessing
    /\ UNCHANGED <<imageUrl, changes, effectDeps, cropStates, single, rasterVars, appVars>>

\* a slip: the loop does not wait for handleDownload before its pause, so
\* the timer may fire while the export is still running
BatchTimerEarly(i) ==
    /\ batch[i].pc \in {"setTimeout", "handleDownload"}
    /\ LET r == handleDownloadAllTimer(batch[i], isProcessing)
       IN  /\ batch' = [batch EXCEPT ![i] = r.batch]
           /\ isProcessing' = r.isProcessing
    /\ UNCHANGED <<imageUrl, changes, effectDeps, cropStates, single, rasterVars, appVars>>

\* the 500 ms timer of a batch fires
BatchTimer(i) ==
    /\ batch[i].pc = "setTimeout"
    /\ LET r == handleDownloadAllTimer(batch[i], isProcessing)
       IN  /\ batch' = [batch EXCEPT ![i] = r.batch]
           /\ isProcessing' = r.isProcessing
    /\ UNCHANGED <<imageUrl, changes, effectDeps, cropStates, single, rasterVars, appVars>>

----------------------------------------------------------------------------
(* SpecRaster: generateBlob on bounded inputs *)

\* rectangles handed to generateBlob
RasterAreas ==
    [x : 0 .. MaxSide - 1, y : 0 .. MaxSide - 1, width : 1 .. MaxSide, height : 1 .. MaxSide]

RasterInputs ==
    [url : Images, pixels : RasterAreas, env : Envs, encoded : BOOLEAN]

\* generateBlob has not been applied to rasterIn yet
Pending == [kind |-> "pending", value |-> NULL, logs |-> 0]

\* generateBlob runs to settlement
RasterRun ==
    /\ rasterOut = Pending
    /\ rasterOut' = generateBlob(rasterIn.url, rasterIn.pixels, rasterIn.env, rasterIn.encoded)
    /\ UNCHANGED <<rasterIn, editorVars, appVars>>

----------------------------------------------------------------------------
(* Image services: generateStockImages and generateAiImages (src/unnamed/part_001) *)

\* how many results a provider's response may carry
MaxHits == 6
\* how many parts one generateContent response may carry
MaxParts == 2

\* results.length < 5 and needed = 5 - results.length (lines 173, 175)
StockTarget == 5
\* the loop bound of the last-resort fallback (line 198)
PlaceholderCount == 4
\* Math.max(3, needed + 1) (line 178)
PixabayMinPerPage == 3
\* [1, 2, 3].map(...) (line 109)
AiRequests == 3

Min(a, b) == IF a < b THEN a ELSE b
Max(a, b) == IF a > b THEN a ELSE b

\* keyword lists handed to the services
KeywordLists ==
    { <<>>, <<"cat">>, <<"red car", "dog">>, <<"cat", "dog", "sun">> }

\* keywords.slice(0, 2) of line 148 (the words that are then joined by ' ')
Query(keywords) == SubSeq(keywords, 1, Min(2, Len(keywords)))

\* encodeURIComponent on the keywords used here
encodeURIComponent(word) == IF word = "red car" THEN "red%20car" ELSE word

\* encodeURIComponent(keywords[0]) of line 201; keywords[0] of an empty list is
\* undefined, which encodes as the text "undefined"
PlaceholderTopic(keywords) ==
    IF Len(keywords) = 0 THEN "undefined" ELSE encodeURIComponent(keywords[1])

\* What a provider does with a request: the fetch (or reading the body)
\* throws, the response is not ok, or it is ok and carries n results.
ProviderOutcomes ==
    { [kind |-> "throws", n |-> 0], [kind |-> "notok", n |-> 0] }
    \cup { [kind |-> "ok", n |-> n] : n \in 0 .. MaxHits }

\* lines 159-163 and 183-187: the ImageResults made of a provider's items
RealImages(provider, n) ==
    [i \in 1 .. n |->
        [id |-> [provider |-> provider, item |-> i],
         url |-> [host |-> provider, item |-> i],
         source |-> "STOCK_LIBRARY"]]

\* a slip: the fallback fills up to the five results the caller wants
PlaceholdersUpToTarget(keywords, source, page) ==
    [i \in 1 .. StockTarget |->
        [id |-> [provider |-> "backup", item |-> i - 1],
         url |-> [host |-> "loremflickr", topic |-> PlaceholderTopic(keywords),
                  lock |-> (i - 1) + page * 10],
         source |-> source]]

\* lines 197-203, without the Date.now() seed
Placeholders(keywords, source, page) ==
    [i \in 1 .. PlaceholderCount |->
        [id |-> [provider |-> "backup", item |-> i - 1],
         url |-> [host |-> "loremflickr", topic |-> PlaceholderTopic(keywords),
                  lock |-> (i - 1) + page * 10],
         source |-> source]]

\* a slip: fewer than five real results are topped up with placeholders
generateStockImagesToppedUp(keywords, source, page, unsplash, pixabay) ==
    LET fromUnsplash ==
            IF unsplash.kind = "ok" THEN RealImages("unsplash", unsplash.n) ELSE <<>>
        needed == StockTarget - Len(fromUnsplash)
        fromPixabay ==
            IF pixabay.kind = "ok"
            THEN RealImages("pixabay", Min(pixabay.n, Max(needed, 0)))
            ELSE <<>>
        results == fromUnsplash \o fromPixabay
        fill == Placeholders(keywords, source, page)
    IN  [kind |-> "return",
         value |-> results \o SubSeq(fill, 1, Min(PlaceholderCount,
                                                  Max(StockTarget - Len(results), 0))),
         fetches |-> << [provider |-> "unsplash", query |-> Query(keywords),
                         page |-> page, per_page |-> 4],
                        [provider |-> "pixabay", query |-> Query(keywords),
                         page |-> page, per_page |-> Max(PixabayMinPerPage, needed + 1)] >>]

\* generateStockImages (lines 145-207): what it returns, and the requests it
\* made on the way
generateStockImages(keywords, source, page, unsplash, pixabay) ==
    LET fromUnsplash ==
            IF unsplash.kind = "ok" THEN RealImages("unsplash", unsplash.n) ELSE <<>>
        consulted == Len(fromUnsplash) < StockTarget
        needed == StockTarget - Len(fromUnsplash)
        fromPixabay ==
            IF consulted /\ pixabay.kind = "ok"
            THEN RealImages("pixabay", Min(pixabay.n, needed))
            ELSE <<>>
        results == fromUnsplash \o fromPixabay
        fetches ==
            << [provider |-> "unsplash", query |-> Query(keywords), page |-> page,
                per_page |-> 4] >>
            \o (IF consulted
                THEN << [provider |-> "pixabay", query |-> Query(keywords), page |-> page,
                         per_page |-> Max(PixabayMinPerPage, needed + 1)] >>
                ELSE << >>)
    IN  [kind |-> "return",
         value |-> IF Len(results) = 0 THEN Placeholders(keywords, source, page)
                   ELSE results,
         fetches |-> fetches]

\* the parts of one generateContent response: text parts and inline-data parts
PartLists ==
    UNION { [1 .. n -> {"text", "inline"}] : n \in 0 .. MaxParts }

\* What one generateContent request comes to: it rejects, it answers without
\* candidates, or it answers with a list of parts.
AiOutcomes ==
    { [kind |-> "reject", parts |-> <<>>], [kind |-> "nocandidates", parts |-> <<>>] }
    \cup { [kind |-> "parts", parts |-> ps] : ps \in PartLists }

\* lines 119-133 for one response: an image for each inline-data part
AiImagesOf(res, idx) ==
    LET inline == SelectSeq(res.parts, LAMBDA part : part = "inline")
    IN  [j \in 1 .. Len(inline) |->
            [id |-> [provider |-> "ai", item |-> idx],
             url |-> [host |-> "data", item |-> idx],
             source |-> "AI_GENERATION"]]

\* generateAiImages (lines 96-142): the key check outside the try, Promise.all
\* over the three requests, the images of their parts, and the fallback of the
\* catch
generateAiImages(keywords, apiKey, responses, unsplash, pixabay) ==
    IF ~apiKey
    THEN [kind |-> "reject", value |-> <<>>, fetches |-> <<>>]
    ELSE IF \E i \in 1 .. AiRequests : responses[i].kind = "reject"
    THEN generateStockImages(keywords, "AI_GENERATION", 1, unsplash, pixabay)
    ELSE [kind |-> "return",
          value |-> AiImagesOf(responses[1], 0) \o AiImagesOf(responses[2], 1)
                    \o AiImagesOf(responses[3], 2),
          fetches |-> <<>>]

\* SpecService: the calls the services are applied to
StockCalls ==
    [fn : {"generateStockImages"}, keywords : KeywordLists,
     source : {"AI_GENERATION", "STOCK_LIBRARY"}, page : 1 .. 2,
     unsplash : ProviderOutcomes, pixabay : ProviderOutcomes]

\* for the fallback of generateAiImages a few provider outcomes are enough
FallbackOutcomes ==
    { [kind |-> "throws", n |-> 0], [kind |-> "ok", n |-> 0], [kind |-> "ok", n |-> 2] }

AiCalls ==
    [fn : {"generateAiImages"}, keywords : {<<"cat">>, <<"red car", "dog">>},
     apiKey : BOOLEAN, responses : [1 .. AiRequests -> AiOutcomes],
     unsplash : FallbackOutcomes, pixabay : FallbackOutcomes]

NotCalled == [kind |-> "pending", value |-> <<>>, fetches |-> <<>>]

StockRun ==
    /\ svcIn.fn = "generateStockImages"
    /\ svcOut = NotCalled
    /\ svcOut' = generateStockImages(svcIn.keywords, svcIn.source, svcIn.page,
                                     svcIn.unsplash, svcIn.pixabay)
    /\ UNCHANGED <<svcIn, app, editorVars, rasterVars>>

AiRun ==
    /\ svcIn.fn = "generateAiImages"
    /\ svcOut = NotCalled
    /\ svcOut' = generateAiImages(svcIn.keywords, svcIn.apiKey, svcIn.responses,
                                  svcIn.unsplash, svcIn.pixabay)
    /\ UNCHANGED <<svcIn, app, editorVars, rasterVars>>

----------------------------------------------------------------------------
(* App: handleAnalyze, handleFetchImages and the controls around them
   (src/unnamed/part_002) *)

\* how far the refresh button may raise the page
MaxPage == 2

\* data.keywords.slice(0, 3) (line 112)
PreSelected == 3

\* what the textarea may hold: nothing, blanks, a draft
InputTexts == {"", "  ", "draft"}

\* inputText.trim() on those
Trim(text) == IF text = "  " THEN "" ELSE text

\* the keyword pairs of an analysis result
KeywordItems ==
    << [cn |-> "mao", en |-> "cat"], [cn |-> "gou", en |-> "dog"],
       [cn |-> "ri", en |-> "sun"], [cn |-> "tian", en |-> "sky"] >>

\* How generateContentAnalysis settles (part_001 lines 47-93): with a parsed
\* result, or rejecting with the error it logged and rethrew.
AnalysisOutcomes ==
    { [kind |-> "resolve", data |-> [keywords |-> KeywordItems], message |-> ""],
      [kind |-> "reject", data |-> NULL, message |-> "API Key is missing."],
      [kind |-> "reject", data |-> NULL, message |-> ""] }

\* What the providers do during one fetch of images.
OneImageEach == [i \in 1 .. AiRequests |-> [kind |-> "parts", parts |-> <<"inline">>]]
FirstRejects == [OneImageEach EXCEPT ![1] = [kind |-> "reject", parts |-> <<>>]]

FetchEnvs ==
    [apiKey : BOOLEAN, responses : {OneImageEach, FirstRejects},
     unsplash : {[kind |-> "ok", n |-> 2], [kind |-> "throws", n |-> 0]},
     pixabay : {[kind |-> "throws", n |-> 0]}]

\* One invocation of a handler.
\*   pc         "idle"; "await": suspended at its await; "returned"
\*   result     "guard": returned at its guard; "ok"; "failed": the catch ran
\*   errorsSet  calls of setError with a message
\*   raised     the promise the handler returned was rejected
\*   source, terms, page: what handleFetchImages took from its render, kept
\*              while it is suspended
NoCall ==
    [pc |-> "idle", result |-> "none", errorsSet |-> 0, raised |-> FALSE,
     source |-> "AI_GENERATION", terms |-> <<>>, page |-> 1]

\* lines 74-91: the state App starts with
InitialApp ==
    [inputText |-> "", isAnalyzing |-> FALSE, analysisResult |-> NULL,
     error |-> "none", selectedKeywords |-> <<>>, imageSource |-> "AI_GENERATION",
     isGeneratingImages |-> FALSE, hasAttemptedFetch |-> FALSE,
     generatedImages |-> <<>>, selectedImage |-> NULL, page |-> 1,
     analyze |-> NoCall, fetch |-> NoCall]

\* handleAnalyze up to its await (lines 94-109)
handleAnalyzeCall(a) ==
    IF Trim(a.inputText) = ""
    THEN [a EXCEPT !.error = "enter some text",
                   !.analyze = [NoCall EXCEPT !.pc = "returned", !.result = "guard",
                                              !.errorsSet = 1]]
    ELSE [a EXCEPT !.error = "none", !.isAnalyzing = TRUE, !.analysisResult = NULL,
                   !.generatedImages = <<>>, !.selectedKeywords = <<>>,
                   !.selectedImage = NULL, !.hasAttemptedFetch = FALSE, !.page = 1,
                   !.analyze = [NoCall EXCEPT !.pc = "await"]]

\* handleAnalyze once generateContentAnalysis has settled (lines 109-117)
handleAnalyzeSettled(a, outcome) ==
    IF outcome.kind = "resolve"
    THEN [a EXCEPT !.analysisResult = outcome.data,
                   !.selectedKeywords =
                       SubSeq(outcome.data.keywords, 1,
                              Min(PreSelected, Len(outcome.data.keywords))),
                   !.isAnalyzing = FALSE,
                   !.analyze = [@ EXCEPT !.pc = "returned", !.result = "ok"]]
    ELSE [a EXCEPT !.error = IF outcome.message # "" THEN outcome.message
                             ELSE "analysis failed, retry",
                   !.isAnalyzing = FALSE,
                   !.analyze = [@ EXCEPT !.pc = "returned", !.result = "failed",
                                         !.errorsSet = @ + 1]]

\* toggleKeyword (lines 127-136)
toggleKeyword(prev, kwItem) ==
    IF \E i \in 1 .. Len(prev) : prev[i].cn = kwItem.cn
    THEN SelectSeq(prev, LAMBDA k : k.cn # kwItem.cn)
    ELSE Append(prev, kwItem)

\* a slip: the fetch empties the list but keeps the selection (line 155 left
\* out)
handleFetchImagesKeepsSelection(a, isRefresh) ==
    IF a.analysisResult = NULL \/ Len(a.selectedKeywords) = 0
    THEN [a EXCEPT !.fetch = [NoCall EXCEPT !.pc = "returned", !.result = "guard"]]
    ELSE LET newPage == IF isRefresh THEN a.page + 1 ELSE 1
         IN  [a EXCEPT !.isGeneratingImages = TRUE, !.error = "none",
                       !.page = newPage,
                       !.hasAttemptedFetch = IF isRefresh THEN @ ELSE FALSE,
                       !.generatedImages = <<>>,
                       !.fetch = [NoCall EXCEPT
                                     !.pc = "await", !.source = a.imageSource,
                                     !.page = newPage,
                                     !.terms = [i \in 1 .. Len(a.selectedKeywords) |->
                                                   a.selectedKeywords[i].en]]]

\* handleFetchImages up to its await (lines 139-165)
handleFetchImagesCall(a, isRefresh) ==
    IF a.analysisResult = NULL \/ Len(a.selectedKeywords) = 0
    THEN [a EXCEPT !.fetch = [NoCall EXCEPT !.pc = "returned", !.result = "guard"]]
    ELSE LET newPage == IF isRefresh THEN a.page + 1 ELSE 1
         IN  [a EXCEPT !.isGeneratingImages = TRUE, !.error = "none",
                       !.page = newPage,
                       !.hasAttemptedFetch = IF isRefresh THEN @ ELSE FALSE,
                       !.generatedImages = <<>>, !.selectedImage = NULL,
                       !.fetch = [NoCall EXCEPT
                                     !.pc = "await", !.source = a.imageSource,
                                     !.page = newPage,
                                     !.terms = [i \in 1 .. Len(a.selectedKeywords) |->
                                                   a.selectedKeywords[i].en]]]

\* a slip: the busy flag is cleared after the try, not in a finally
handleFetchImagesNoFinally(a, outcome) ==
    IF outcome.kind = "return"
    THEN [a EXCEPT !.generatedImages = outcome.value,
                   !.isGeneratingImages = FALSE, !.hasAttemptedFetch = TRUE,
                   !.fetch = [NoCall EXCEPT !.pc = "returned", !.result = "ok"]]
    ELSE [a EXCEPT !.error = "image fetch failed, switch source and retry",
                   !.fetch = [NoCall EXCEPT !.pc = "returned", !.result = "failed",
                                            !.errorsSet = a.fetch.errorsSet + 1]]

\* handleFetchImages once the image service has settled (lines 163-175)
handleFetchImagesSettled(a, outcome) ==
    IF outcome.kind = "return"
    THEN [a EXCEPT !.generatedImages = outcome.value,
                   !.isGeneratingImages = FALSE, !.hasAttemptedFetch = TRUE,
                   !.fetch = [NoCall EXCEPT !.pc = "returned", !.result = "ok"]]
    ELSE [a EXCEPT !.error = "image fetch failed, switch source and retry",
                   !.isGeneratingImages = FALSE, !.hasAttemptedFetch = TRUE,
                   !.fetch = [NoCall EXCEPT !.pc = "returned", !.result = "failed",
                                            !.errorsSet = a.fetch.errorsSet + 1]]

\* the image service handleFetchImages awaits (lines 162-166)
FetchOutcome(call, env) ==
    IF call.source = "AI_GENERATION"
    THEN generateAiImages(call.terms, env.apiKey, env.responses, env.unsplash, env.pixabay)
    ELSE generateStockImages(call.terms, "STOCK_LIBRARY", call.page,
                             env.unsplash, env.pixabay)

\* the textarea's onChange (line 253)
SetInputText(text) ==
    /\ text # app.inputText
    /\ app' = [app EXCEPT !.inputText = text]
    /\ UNCHANGED <<svcIn, svcOut, editorVars, rasterVars>>

\* the analyze button (lines 257-259), disabled while analyzing or without text
AnalyzeClick ==
    /\ ~app.isAnalyzing
    /\ Trim(app.inputText) # ""
    /\ app' = handleAnalyzeCall(app)
    /\ UNCHANGED <<svcIn, svcOut, editorVars, rasterVars>>

\* generateContentAnalysis settles
AnalyzeSettles(outcome) ==
    /\ app.analyze.pc = "await"
    /\ app' = handleAnalyzeSettled(app, outcome)
    /\ UNCHANGED <<svcIn, svcOut, editorVars, rasterVars>>

\* a keyword chip of the analysis result is clicked (line 374)
ToggleKeyword(i) ==
    /\ app.analysisResult # NULL
    /\ i \in 1 .. Len(app.analysisResult.keywords)
    /\ app' = [app EXCEPT !.selectedKeywords =
                              toggleKeyword(@, app.analysisResult.keywords[i])]
    /\ UNCHANGED <<svcIn, svcOut, editorVars, rasterVars>>

\* a source toggle button (lines 411, 421)
SourceToggle(source) ==
    /\ app.analysisResult # NULL
    /\ app' = [app EXCEPT !.imageSource = source, !.generatedImages = <<>>,
                          !.selectedImage = NULL, !.hasAttemptedFetch = FALSE,
                          !.page = 1]
    /\ UNCHANGED <<svcIn, svcOut, editorVars, rasterVars>>

\* the fetch button (lines 437-438) and the refresh buttons (lines 397-399,
\* 483-493), which are shown only while no fetch is running
FetchClick(isRefresh) ==
    /\ app.analysisResult # NULL
    /\ ~app.isGeneratingImages
    /\ IF isRefresh
       THEN /\ Len(app.generatedImages) > 0 \/ app.hasAttemptedFetch
            /\ app.page < MaxPage
       ELSE Len(app.selectedKeywords) > 0
    /\ app' = handleFetchImagesCall(app, isRefresh)
    /\ UNCHANGED <<svcIn, svcOut, editorVars, rasterVars>>

\* the image service settles
FetchSettles(env) ==
    /\ app.fetch.pc = "await"
    /\ app' = handleFetchImagesSettled(app, FetchOutcome(app.fetch, env))
    /\ UNCHANGED <<svcIn, svcOut, editorVars, rasterVars>>

\* an image card is clicked (line 467)
SelectImage(i) ==
    /\ i \in 1 .. Len(app.generatedImages)
    /\ app.selectedImage # app.generatedImages[i].url
    /\ app' = [app EXCEPT !.selectedImage = app.generatedImages[i].url]
    /\ UNCHANGED <<svcIn, svcOut, editorVars, rasterVars>>

----------------------------------------------------------------------------
(* Specifications *)

\* the editor is mounted with an image; the reset effect has not yet run
InitEditor ==
    /\ imageUrl = "A"
    /\ changes = 0
    /\ effectDeps = "unset"
    /\ cropStates = [r \in Ratios |-> INITIAL_STATE]
    /\ isProcessing = FALSE
    /\ single = [i \in 1 .. MaxSingles |-> NoFrame]
    /\ batch = [i \in 1 .. MaxBatches |-> NoBatch]

\* the image services at rest
InitApp ==
    /\ svcIn = CHOOSE call \in StockCalls : TRUE
    /\ svcOut = NotCalled
    /\ app = InitialApp

Init ==
    /\ InitEditor
    /\ InitApp
    /\ rasterIn = CHOOSE in \in RasterInputs : TRUE
    /\ rasterOut = Pending

InitRaster ==
    /\ InitEditor
    /\ InitApp
    /\ rasterIn \in RasterInputs
    /\ rasterOut = Pending

InitService ==
    /\ InitEditor
    /\ rasterIn = CHOOSE in \in RasterInputs : TRUE
    /\ rasterOut = Pending
    /\ svcIn \in StockCalls \cup AiCalls
    /\ svcOut = NotCalled
    /\ app = InitialApp

NextCrop ==
    \/ \E r \in Ratios, c \in Points : OnCropChange(r, c)
    \/ \E r \in Ratios, z \in CropperZooms : OnZoomChange(r, z)
    \/ \E r \in Ratios, z \in SliderValues : OnSliderChange(r, z)
    \/ \E r \in Ratios, a \in Areas : OnCropComplete(r, a)
    \/ \E url \in Images : ImageChange(url)
    \/ ResetEffect

Next ==
    \/ \E r \in Ratios, a \in Areas : OnCropComplete(r, a)
    \/ ResetEffect
    \/ \E r \in Ratios : SingleClick(r)
    \/ \E i \in 1 .. MaxSingles, env \in Envs : SingleImageSettles(i, env)
    \/ \E i \in 1 .. MaxSingles, encoded \in BOOLEAN : SingleBlobCallback(i, encoded)
    \/ BatchClick
    \/ \E i \in 1 .. MaxBatches, env \in Envs : BatchImageSettles(i, env)
    \/ \E i \in 1 .. MaxBatches, encoded \in BOOLEAN : BatchBlobCallback(i, encoded)
    \/ \E i \in 1 .. MaxBatches : BatchTimer(i)

\* The exports with the parent changing the image under them.  Of the faults
\* of the browser only the decode failure is kept here: the other faults end
\* an export in the same way and have no part in which image and rectangle
\* an export holds.
ImageEnvs == {EnvOk, [EnvOk EXCEPT !.image = "error"]}

NextImage ==
    \/ \E r \in Ratios, a \in Areas : OnCropComplete(r, a)
    \/ ResetEffect
    \/ \E url \in Images : changes < MaxImageChanges /\ ImageChange(url)
    \/ \E r \in Ratios : SingleClick(r)
    \/ \E i \in 1 .. MaxSingles, env \in ImageEnvs : SingleImageSettles(i, env)
    \/ \E i \in 1 .. MaxSingles : SingleBlobCallback(i, TRUE)
    \/ BatchClick
    \/ \E i \in 1 .. MaxBatches, env \in ImageEnvs : BatchImageSettles(i, env)
    \/ \E i \in 1 .. MaxBatches : BatchBlobCallback(i, TRUE)
    \/ \E i \in 1 .. MaxBatches : BatchTimer(i)

NextRaster ==
    RasterRun

NextService ==
    \/ StockRun
    \/ AiRun

NextApp ==
    \/ \E text \in InputTexts : SetInputText(text)
    \/ AnalyzeClick
    \/ \E outcome \in AnalysisOutcomes : AnalyzeSettles(outcome)
    \/ \E i \in 1 .. Len(KeywordItems) : ToggleKeyword(i)
    \/ \E source \in {"AI_GENERATION", "STOCK_LIBRARY"} : SourceToggle(source)
    \/ \E isRefresh \in BOOLEAN : FetchClick(isRefresh)
    \/ \E env \in FetchEnvs : FetchSettles(env)
    \/ \E i \in 1 .. PlaceholderCount : SelectImage(i)

SpecCrop == Init /\ [][NextCrop]_vars

Spec == Init /\ [][Next]_vars

SpecImage == Init /\ [][NextImage]_vars

SpecRaster == InitRaster /\ [][NextRaster]_vars

SpecService == InitService /\ [][NextService]_vars

SpecApp == Init /\ [][NextApp]_vars

\* The zoom mutator on the numbers its parameter admits (z: number, line
\* 181), in tenths: below the slider's min, within its range, above its max.
ZoomArguments == {5, SliderMin, 20, SliderMax, 35}

NextZoom ==
    \E r \in Ratios, z \in ZoomArguments : OnZoomChange(r, z)

SpecZoom == Init /\ [][NextZoom]_vars

\* One batch export with the Croppers reporting either of two rectangles
\* while it runs.
BatchAreas == Areas \cup { [x |-> 0, y |-> 0, width |-> 2, height |-> 1] }

NextBatch ==
    \/ \E r \in Ratios, a \in BatchAreas : OnCropComplete(r, a)
    \/ ResetEffect
    \/ BatchClick
    \/ \E i \in 1 .. MaxBatches, env \in ImageEnvs : BatchImageSettles(i, env)
    \/ \E i \in 1 .. MaxBatches : BatchBlobCallback(i, TRUE)
    \/ \E i \in 1 .. MaxBatches : BatchTimer(i)

SpecBatch == Init /\ [][NextBatch]_vars

\* Every asynchronous step an export is waiting for completes: the image
\* loads or errors (lines 36-37), toBlob calls back (line 91), the timer of
\* line 130 fires.  Clicks and crop callbacks are the user's and need not
\* happen.
Completion ==
    /\ \A i \in 1 .. MaxSingles :
          /\ WF_vars(\E env \in Envs : SingleImageSettles(i, env))
          /\ WF_vars(\E encoded \in BOOLEAN : SingleBlobCallback(i, encoded))
    /\ \A i \in 1 .. MaxBatches :
          /\ WF_vars(\E env \in Envs : BatchImageSettles(i, env))
          /\ WF_vars(\E encoded \in BOOLEAN : BatchBlobCallback(i, encoded))
          /\ WF_vars(BatchTimer(i))

SpecLive == Init /\ [][Next]_vars /\ Completion

----------------------------------------------------------------------------
(* Claims on the per-ratio crop state (SpecCrop) *)

\* some mutator call on the ratio: a pan, zoom, slider or crop-rectangle change
MutatorCall(ratio) ==
    \/ \E c \in Points : OnCropChange(ratio, c)
    \/ \E z \in CropperZooms : OnZoomChange(ratio, z)
    \/ \E z \in SliderValues : OnSliderChange(ratio, z)
    \/ \E a \in Areas : OnCropComplete(ratio, a)

\* C1: every mutator call on one ratio (pan, zoom or crop-rectangle change
\* through updateCropState) leaves the CropState of each other ratio as it was.
C1_OtherRatiosUnchanged ==
    [][\A r \in Ratios :
          MutatorCall(r) => \A q \in Ratios \ {r} : cropStates'[q] = cropStates[q]]_vars

\* C1 witness: pan, zoom and rectangle of one ratio were changed after the
\* mount, the second ratio holds a rectangle only, the third is untouched.
C1_Witness ==
    /\ effectDeps = imageUrl
    /\ cropStates["LANDSCAPE"].crop # INITIAL_STATE.crop
    /\ cropStates["LANDSCAPE"].zoom = SliderMax
    /\ cropStates["LANDSCAPE"].croppedAreaPixels # NULL
    /\ cropStates["CINEMATIC"] = [INITIAL_STATE EXCEPT
                                     !.croppedAreaPixels = cropStates["CINEMATIC"].croppedAreaPixels]
    /\ cropStates["CINEMATIC"].croppedAreaPixels # NULL
    /\ cropStates["SQUARE"] = INITIAL_STATE

\* C2: every change of imageUrl leaves the reset effect to run, and the reset
\* effect sets all three CropStates to the default (zero pan, zoom 1, no crop
\* rectangle), whatever they held.
C2_ImageChangeResetsAll ==
    /\ [][imageUrl' # imageUrl => effectDeps' # imageUrl']_vars
    /\ [][effectDeps' # effectDeps =>
            /\ effectDeps' = imageUrl'
            /\ \A r \in Ratios :
                  /\ cropStates'[r].crop = [x |-> 0, y |-> 0]
                  /\ cropStates'[r].zoom = 10
                  /\ cropStates'[r].croppedAreaPixels = NULL]_vars

\* C2 witness: the image has changed while every ratio holds a pan, a zoom and
\* a crop rectangle other than the default; the reset is what runs next.
C2_Witness ==
    /\ changes > 0
    /\ effectDeps # imageUrl
    /\ \A r \in Ratios :
          /\ cropStates[r].crop # INITIAL_STATE.crop
          /\ cropStates[r].zoom # INITIAL_STATE.zoom
          /\ cropStates[r].croppedAreaPixels # NULL

----------------------------------------------------------------------------
(* Claims on the export orchestrator (Spec, SpecImage) *)

\* the handleDownload invocations that are suspended in generateBlob
FramesInFlight ==
    {single[i] : i \in {j \in 1 .. MaxSingles : single[j].pc \in {"createImage", "toBlob"}}}
    \cup {batch[i].frame : i \in {j \in 1 .. MaxBatches : batch[j].pc = "handleDownload"}}

\* the batches that have started and not yet settled
BatchesInFlight ==
    {i \in 1 .. MaxBatches : batch[i].pc \in {"handleDownload", "setTimeout"}}

\* C3: an export never rasterizes an image with a crop rectangle that was
\* recorded while a different image was the source.
C3_NoStaleRectangle ==
    \A f \in FramesInFlight : f.pixels.of = f.imageUrl

\* C4: handleDownload on a ratio without a recorded crop rectangle is a silent
\* no-op: the call returns without starting a rasterization, downloads no
\* file, raises no alert and no error and leaves the processing flag as it was;
\* nothing else changes either.
C4_NoRectangleNoOp ==
    /\ [][\A r \in Ratios :
            (cropStates[r].croppedAreaPixels = NULL /\ SingleClick(r)) =>
                /\ isProcessing' = isProcessing
                /\ \A i \in 1 .. MaxSingles :
                      single'[i] # single[i] =>
                          /\ single'[i].pc = "returned"
                          /\ single'[i].result = "skipped"
                          /\ single'[i].file = NULL
                          /\ single'[i].alerts = 0
                          /\ ~single'[i].raised
                /\ UNCHANGED <<imageUrl, effectDeps, cropStates, batch>>]_vars
    /\ [](\A i \in 1 .. MaxBatches : \A k \in 1 .. Len(batch[i].returned) :
            LET f == batch[i].returned[k]
            IN  batch[i].cropStates[f.ratio].croppedAreaPixels = NULL =>
                    f.result = "skipped" /\ f.file = NULL /\ f.alerts = 0 /\ ~f.raised)

\* C4 witness: a single export of a ratio without a rectangle has returned as
\* skipped while that ratio still has none and the flag is down.
C4_Witness ==
    \E i \in 1 .. MaxSingles :
        /\ single[i].pc = "returned"
        /\ single[i].result = "skipped"
        /\ cropStates[single[i].ratio].croppedAreaPixels = NULL
        /\ \E r \in Ratios : cropStates[r].croppedAreaPixels # NULL
        /\ ~isProcessing

\* C5: a settled handleDownloadAll has called handleDownload exactly three
\* times, for wide, cinematic, square in this order, and has not raised; each
\* ratio is skipped exactly when the batch's render held no rectangle for it,
\* and every other ratio was carried through to a file or a failure of its
\* own; whatever happened to the ratios before it, a ratio whose own
\* rasterization succeeds downloads its file.
C5_BatchAttemptsAllThree ==
    /\ [](\A i \in 1 .. MaxBatches :
            /\ ~batch[i].raised
            /\ batch[i].pc = "done" =>
                  /\ batch[i].calls = <<"LANDSCAPE", "CINEMATIC", "SQUARE">>
                  /\ Len(batch[i].returned) = 3
                  /\ \A k \in 1 .. 3 :
                        LET f == batch[i].returned[k]
                            area == batch[i].cropStates[batch[i].calls[k]].croppedAreaPixels
                        IN  /\ f.ratio = batch[i].calls[k]
                            /\ ~f.raised
                            /\ (area = NULL) = (f.result = "skipped")
                            /\ area # NULL => f.result \in {"file", "null", "caught"}
                            /\ (f.result = "file") = (f.file # NULL)
                            /\ f.file # NULL => f.file.ratioName = ratioName(f.ratio))
    /\ [][\A i \in 1 .. MaxBatches :
            BatchBlobCallback(i, TRUE) =>
                LET f == batch'[i].returned[Len(batch'[i].returned)]
                IN  /\ f.ratio = batch[i].frame.ratio
                    /\ f.result = "file"
                    /\ f.file = DownloadedFile(f.ratio, PngBlob(batch[i].frame.canvas))]_vars

\* C5 witness: a settled batch whose first ratio failed (its rasterization
\* gave null, or threw) and whose other two ratios each produced a file.
C5_Witness ==
    \E i \in 1 .. MaxBatches :
        /\ batch[i].pc = "done"
        /\ batch[i].returned[1].result \in {"null", "caught"}
        /\ batch[i].returned[2].result = "file"
        /\ batch[i].returned[3].result = "file"

\* C6: while a batch export is in flight the processing flag is true.
C6_FlagCoversBatch ==
    BatchesInFlight # {} => isProcessing

\* C7: a single export (with a recorded rectangle) that ends without a file
\* because its rasterization failed has raised the user alert.
C7_SingleFailureAlerts ==
    \A i \in 1 .. MaxSingles :
        (single[i].pc = "returned" /\ single[i].result \in {"null", "caught"}) =>
            single[i].alerts > 0 /\ single[i].file = NULL

\* C8: no handleDownload invocation made by a batch export ever raises the
\* user alert, on any of its failure paths.
C8_BatchNeverAlerts ==
    \A i \in 1 .. MaxBatches :
        /\ batch[i].frame.alerts = 0
        /\ \A k \in 1 .. Len(batch[i].returned) : batch[i].returned[k].alerts = 0

\* C8 witness: a batch in which one ratio's export went through the catch of
\* handleDownload and another's rasterization gave null.
C8_Witness ==
    \E i \in 1 .. MaxBatches :
        /\ \E k \in 1 .. Len(batch[i].returned) : batch[i].returned[k].result = "caught"
        /\ \E k \in 1 .. Len(batch[i].returned) : batch[i].returned[k].result = "null"

----------------------------------------------------------------------------
(* Claims on the rasterizer (SpecRaster) *)

\* the rectangle lies within the decoded image
InsideImage(url, pixels) ==
    /\ pixels.x >= 0 /\ pixels.y >= 0
    /\ pixels.x + pixels.width <= NaturalSize(url).width
    /\ pixels.y + pixels.height <= NaturalSize(url).height

\* C9: generateBlob never rejects: whatever fails, it returns null.
C9_GenerateBlobNeverRejects ==
    rasterOut.kind # "reject"

\* C10: for a rectangle inside the image, the surface generateBlob encodes is
\* exactly width by height, and its cell (i, j) is the source pixel
\* (x + i, y + j): the region copied to (0,0) without scaling.
C10_ExactCrop ==
    (rasterOut.kind = "return" /\ rasterOut.value # NULL
        /\ InsideImage(rasterIn.url, rasterIn.pixels)) =>
        /\ rasterOut.value.width = rasterIn.pixels.width
        /\ rasterOut.value.height = rasterIn.pixels.height
        /\ DOMAIN rasterOut.value.data = Cells(rasterIn.pixels.width, rasterIn.pixels.height)
        /\ \A c \in DOMAIN rasterOut.value.data :
              rasterOut.value.data[c] =
                  Pixel(rasterIn.url, rasterIn.pixels.x + c[1], rasterIn.pixels.y + c[2])

\* C10 witness: a blob came out for a rectangle of more than one cell each
\* way that lies inside the image, away from its origin.
C10_Witness ==
    /\ rasterOut.kind = "return"
    /\ rasterOut.value # NULL
    /\ InsideImage(rasterIn.url, rasterIn.pixels)
    /\ rasterIn.pixels.x > 0
    /\ rasterIn.pixels.width > 1
    /\ rasterIn.pixels.height > 1

----------------------------------------------------------------------------
(* Claims on the exports over time (SpecLive, SpecImage, SpecBatch) *)

\* no handleDownload and no handleDownloadAll invocation is unsettled
NoExportInFlight ==
    /\ \A i \in 1 .. MaxSingles : single[i].pc \in {"idle", "returned"}
    /\ \A i \in 1 .. MaxBatches : batch[i].pc \in {"idle", "done"}

\* C11: with every asynchronous step completing, whatever rasterizations
\* succeed or fail, a raised processing flag is lowered again, every started
\* export settles, and the flag is false whenever no export is in flight.
C11_FlagReturnsToFalse ==
    /\ isProcessing ~> ~isProcessing
    /\ \A i \in 1 .. MaxSingles :
          (single[i].pc \in {"createImage", "toBlob"}) ~> (single[i].pc = "returned")
    /\ \A i \in 1 .. MaxBatches :
          (batch[i].pc \in {"handleDownload", "setTimeout"}) ~> (batch[i].pc = "done")
    /\ [](NoExportInFlight => ~isProcessing)

\* C11 witness: a batch with a failed ratio and a single export that went
\* through the catch have both settled, and the flag is down.
C11_Witness ==
    /\ NoExportInFlight
    /\ ~isProcessing
    /\ \E i \in 1 .. MaxSingles : single[i].result = "caught"
    /\ \E i \in 1 .. MaxBatches :
          /\ batch[i].pc = "done"
          /\ \E k \in 1 .. 3 : batch[i].returned[k].result \in {"null", "caught"}

\* C12: an image change leaves every export in flight as it is; an export in
\* flight keeps the image reference and the crop rectangles of the render it
\* was started from: every rasterization a batch still starts takes that
\* image and that render's rectangle for the ratio, and every file an export
\* then downloads is that image cropped by that rectangle.
C12_InFlightKeepsOldImage ==
    /\ [][imageUrl' # imageUrl => single' = single /\ batch' = batch]_vars
    /\ [][\A i \in 1 .. MaxSingles :
            single[i].pc \in {"createImage", "toBlob"} =>
                /\ single'[i].imageUrl = single[i].imageUrl
                /\ single'[i].pc \in {"createImage", "toBlob", "returned"}
                /\ single'[i].pc # "returned" => single'[i].pixels = single[i].pixels
                /\ single'[i].pc = "toBlob" =>
                      single'[i].canvas = CropToCanvas(single[i].imageUrl, single[i].pixels)
                /\ single'[i].file # NULL =>
                      single'[i].file.blob =
                          PngBlob(CropToCanvas(single[i].imageUrl, single[i].pixels))]_vars
    /\ [][\A i \in 1 .. MaxBatches :
            batch[i].pc \in {"handleDownload", "setTimeout"} =>
                /\ batch'[i].pc # "idle"
                /\ batch'[i].imageUrl = batch[i].imageUrl
                /\ batch'[i].cropStates = batch[i].cropStates
                /\ Len(batch'[i].returned) > Len(batch[i].returned) =>
                      LET f == batch'[i].returned[Len(batch'[i].returned)]
                          area == batch[i].cropStates[f.ratio].croppedAreaPixels
                      IN  f.file # NULL =>
                              f.file.blob = PngBlob(CropToCanvas(batch[i].imageUrl, area))]_vars
    /\ [](\A i \in 1 .. MaxBatches :
            batch[i].pc = "handleDownload" =>
                /\ batch[i].frame.imageUrl = batch[i].imageUrl
                /\ batch[i].frame.pixels =
                      batch[i].cropStates[batch[i].frame.ratio].croppedAreaPixels)

\* C12 witness: the image has changed, the reset has run and the third
\* ratio has a rectangle recorded for the new image, while a batch started on
\* the old image is encoding that ratio from the old image and a single
\* export of the old image is still waiting for it to load.
C12_Witness ==
    /\ effectDeps = imageUrl
    /\ cropStates["SQUARE"].croppedAreaPixels # NULL
    /\ \E i \in 1 .. MaxBatches :
          /\ batch[i].pc = "handleDownload"
          /\ batch[i].idx = 3
          /\ batch[i].imageUrl # imageUrl
          /\ batch[i].frame.pc = "toBlob"
          /\ batch[i].frame.pixels.of = batch[i].imageUrl
          /\ cropStates["SQUARE"].croppedAreaPixels # batch[i].frame.pixels
    /\ \E i \in 1 .. MaxSingles :
          /\ single[i].pc = "createImage"
          /\ single[i].imageUrl # imageUrl

\* C13: when a batch begins the export of a ratio, the rectangle it takes is
\* the one the CropState mapping holds for that ratio at that moment: the
\* ratio is skipped exactly when the mapping holds none, and otherwise the
\* rasterization gets the mapping's rectangle.
C13_BatchReadsAtExportTime ==
    [][\A i \in 1 .. MaxBatches :
          Len(batch'[i].calls) = Len(batch[i].calls) + 1 =>
              LET ratio == batch'[i].calls[Len(batch'[i].calls)]
                  area == cropStates[ratio].croppedAreaPixels
              IN  IF area = NULL
                  THEN /\ batch'[i].pc = "setTimeout"
                       /\ batch'[i].returned[Len(batch'[i].returned)].result = "skipped"
                  ELSE /\ batch'[i].pc = "handleDownload"
                       /\ batch'[i].frame.pixels = area]_vars

\* C20: the exports of one batch are strictly sequential and separated by the
\* pause: a batch has at most one export unsettled; a further export begins
\* only when the pause's timer fires, with every earlier export of the batch
\* settled, and it is the next ratio of the fixed order; every export that
\* settles is followed by the pause.
C20_BatchSequentialWithPause ==
    /\ [](\A i \in 1 .. MaxBatches :
            /\ Len(batch[i].calls) =
                   Len(batch[i].returned) + (IF batch[i].pc = "handleDownload" THEN 1 ELSE 0)
            /\ batch[i].pc = "handleDownload" =>
                   batch[i].frame.pc \in {"createImage", "toBlob"}
            /\ batch[i].pc # "handleDownload" => batch[i].frame.pc = "idle")
    /\ [][\A i \in 1 .. MaxBatches :
            (batch[i].pc \in {"handleDownload", "setTimeout"}
                /\ batch'[i].calls # batch[i].calls) =>
                    /\ batch[i].pc = "setTimeout"
                    /\ Len(batch[i].returned) = Len(batch[i].calls)
                    /\ batch'[i].calls =
                           Append(batch[i].calls, ratios[Len(batch[i].calls) + 1])
                    /\ batch'[i].idx = batch[i].idx + 1]_vars
    /\ [][\A i \in 1 .. MaxBatches :
            (batch[i].pc = "handleDownload" /\ batch'[i].returned # batch[i].returned) =>
                /\ batch'[i].pc = "setTimeout"
                /\ batch'[i].calls = batch[i].calls]_vars

\* C20 witness: a batch is in the pause after its second export; the first
\* gave a file and the second failed.
C20_Witness ==
    \E i \in 1 .. MaxBatches :
        /\ batch[i].pc = "setTimeout"
        /\ batch[i].idx = 2
        /\ Len(batch[i].returned) = 2
        /\ batch[i].returned[1].result = "file"
        /\ batch[i].returned[2].result \in {"null", "caught"}

----------------------------------------------------------------------------
(* Claim on the zoom mutator (SpecZoom) *)

\* C14: every ratio's stored zoom lies within the bound [1.0, 3.0], whatever
\* value the zoom mutator was called with.
C14_ZoomWithinBound ==
    \A r \in Ratios :
        cropStates[r].zoom >= SliderMin /\ cropStates[r].zoom <= SliderMax

----------------------------------------------------------------------------
(* Claims on the image services (SpecService) *)

\* a generateStockImages call has settled
StockSettled == svcIn.fn = "generateStockImages" /\ svcOut # NotCalled

\* a generateAiImages call has settled
AiSettled == svcIn.fn = "generateAiImages" /\ svcOut # NotCalled

\* how many results a provider's response carried
Yielded(outcome) == IF outcome.kind = "ok" THEN outcome.n ELSE 0

\* how many of the returned images come from the given host
CountFrom(images, host) ==
    Cardinality({i \in 1 .. Len(images) : images[i].url.host = host})

\* C15: when neither provider yields a result and the keyword list is not
\* empty, generateStockImages returns exactly 4 placeholder results, each with
\* an id, a URL on the query's first keyword, and the caller's source; and it
\* returns an empty list only for an empty keyword list.
C15_FourPlaceholders ==
    StockSettled =>
        /\ svcOut.kind = "return"
        /\ (Yielded(svcIn.unsplash) = 0 /\ Yielded(svcIn.pixabay) = 0
                /\ svcIn.keywords # <<>>) =>
              /\ Len(svcOut.value) = 4
              /\ \A i \in 1 .. Len(svcOut.value) :
                    /\ svcOut.value[i].id = [provider |-> "backup", item |-> i - 1]
                    /\ svcOut.value[i].url.host = "loremflickr"
                    /\ svcOut.value[i].url.topic = encodeURIComponent(svcIn.keywords[1])
                    /\ svcOut.value[i].url.topic # ""
                    /\ svcOut.value[i].source = svcIn.source
              /\ \A i, j \in 1 .. Len(svcOut.value) :
                    i # j => svcOut.value[i] # svcOut.value[j]
        /\ Len(svcOut.value) = 0 => svcIn.keywords = <<>>

\* C15 witness: both providers answered with empty lists to a query of two
\* keywords, and four results came back.
C15_Witness ==
    /\ StockSettled
    /\ svcIn.keywords = <<"red car", "dog">>
    /\ svcIn.unsplash = [kind |-> "ok", n |-> 0]
    /\ svcIn.pixabay = [kind |-> "ok", n |-> 0]
    /\ Len(svcOut.value) = 4

\* C16: placeholders are returned only if both providers together yielded
\* nothing; as soon as one of them contributed, the list is the real results
\* alone, not topped up; the second provider is asked exactly when the first
\* gave fewer than 5 results, and contributes at most 5 minus that number.
C16_PlaceholdersOnlyWhenEmpty ==
    StockSettled =>
        LET first == CountFrom(svcOut.value, "unsplash")
            second == CountFrom(svcOut.value, "pixabay")
            backup == CountFrom(svcOut.value, "loremflickr")
            asked == \E k \in 1 .. Len(svcOut.fetches) :
                        svcOut.fetches[k].provider = "pixabay"
        IN  /\ first = Yielded(svcIn.unsplash)
            /\ backup > 0 => Yielded(svcIn.unsplash) = 0 /\ Yielded(svcIn.pixabay) = 0
            /\ first + second > 0 => backup = 0 /\ Len(svcOut.value) = first + second
            /\ asked = (first < 5)
            /\ second <= Max(5 - first, 0)
            /\ asked => second = Min(Yielded(svcIn.pixabay), 5 - first)
            /\ ~asked => second = 0

\* C16 witness: the first provider gave 2 results, the second was asked, had
\* more than the 3 still needed and contributed 3; no placeholder came back.
C16_Witness ==
    /\ StockSettled
    /\ svcIn.unsplash = [kind |-> "ok", n |-> 2]
    /\ svcIn.pixabay.kind = "ok"
    /\ svcIn.pixabay.n > 3
    /\ CountFrom(svcOut.value, "pixabay") = 3
    /\ Len(svcOut.value) = 5

\* the AI provider failed: it is unusable (no API key), or one of the
\* parallel requests failed
AiProviderFailed ==
    \/ ~svcIn.apiKey
    \/ \E i \in 1 .. AiRequests : svcIn.responses[i].kind = "reject"

\* C17: when the AI provider fails, generateAiImages does not fail but
\* returns what the stock search gives for the same keywords.
C17_AiFailureFallsBack ==
    (AiSettled /\ AiProviderFailed) =>
        /\ svcOut.kind = "return"
        /\ svcOut = generateStockImages(svcIn.keywords, "AI_GENERATION", 1,
                                        svcIn.unsplash, svcIn.pixabay)

\* C18: when the AI provider succeeds, generateAiImages returns at most 3
\* images.
C18_AtMostThreeImages ==
    (AiSettled /\ ~AiProviderFailed) =>
        svcOut.kind = "return" /\ Len(svcOut.value) <= 3

----------------------------------------------------------------------------
(* Claims on the App handlers (SpecApp) *)

\* C19: a failing collaborator call is caught where it is awaited: neither
\* handler ever rejects; the invocation in which the call failed sets one
\* error message, which is then shown, and returns with its busy flag
\* cleared; a busy flag is up only while its handler is suspended.
C19_FailureCaughtAtCallSite ==
    /\ [](~app.analyze.raised /\ ~app.fetch.raised)
    /\ [](app.isAnalyzing = (app.analyze.pc = "await"))
    /\ [](app.isGeneratingImages = (app.fetch.pc = "await"))
    /\ [][(app.analyze.pc = "await" /\ app'.analyze.result = "failed") =>
                /\ app'.analyze.pc = "returned"
                /\ app'.analyze.errorsSet = 1
                /\ app'.error # "none"
                /\ ~app'.isAnalyzing]_vars
    /\ [][(app.fetch.pc = "await" /\ app'.fetch.result = "failed") =>
                /\ app'.fetch.pc = "returned"
                /\ app'.fetch.errorsSet = 1
                /\ app'.error # "none"
                /\ ~app'.isGeneratingImages]_vars

\* C19 witness: the text analysis and the image fetch have both failed; the
\* fetch's message is shown and both busy flags are down.
C19_Witness ==
    /\ app.analyze.result = "failed"
    /\ app.fetch.result = "failed"
    /\ app.error = "image fetch failed, switch source and retry"
    /\ ~app.isAnalyzing
    /\ ~app.isGeneratingImages

\* the urls of the images the grid shows
ListedUrls == {app.generatedImages[i].url : i \in 1 .. Len(app.generatedImages)}

\* C21: a selected image is always the url of an entry of generatedImages, and
\* every step that empties or replaces generatedImages leaves the selection
\* empty.
C21_SelectionIsListed ==
    /\ [](app.selectedImage # NULL => app.selectedImage \in ListedUrls)
    /\ [][app'.generatedImages # app.generatedImages =>
              app'.selectedImage = NULL]_vars

\* C21 witness: after a refresh replaced the list, an image of the second
\* page is selected.
C21_Witness ==
    /\ app.page = 2
    /\ app.fetch.result = "ok"
    /\ Len(app.generatedImages) >= 2
    /\ app.selectedImage = app.generatedImages[2].url

\* C22: a fetch result is stored into generatedImages only when the fetch was
\* issued under the image source and the analysis that are current at that
\* moment: the source the fetch took from its render is still the selected
\* one, an analysis result is present and no new analysis is running.
C22_NoStaleFetchStored ==
    [][(app.fetch.pc = "await" /\ app'.fetch.result = "ok"
            /\ app'.generatedImages # <<>>) =>
          /\ app.fetch.source = app.imageSource
          /\ app.analysisResult # NULL
          /\ ~app.isAnalyzing]_vars

============================================================================
